---- MODULE Spec2Model ----
(***************************************************************************)
(* URTledger: the SQLite-backed ledger store of src/src/db.rs.             *)
(*                                                                         *)
(* One Connection is shared behind Arc<Mutex<..>> by every clone of the    *)
(* Database handle.  Each method locks the mutex on its first line, runs   *)
(* its SQL statements, and drops the guard when it returns.  A caller is   *)
(* a thread t; its position inside a method is pc[t].  Every statement     *)
(* execution is one step, so that an interleaving of two methods would be  *)
(* visible if the mutex allowed one.  A caller blocked in lock() is a       *)
(* caller whose entry step is not enabled: it enters when the mutex is     *)
(* free.                                                                   *)
(*                                                                         *)
(* A table is kept as the sequence of its rows in the order the rows were  *)
(* created.  No statement of db.rs deletes or updates a row, so a table    *)
(* only ever grows at its end; SELECT ... ORDER BY never relies on that    *)
(* order, it sorts by the id column (SortById).                            *)
(*                                                                         *)
(* Weights and prices are written in tenths (2.5 is 25), which keeps the   *)
(* REAL arithmetic of the bounded inputs exact.  The created_at column     *)
(* (a wall-clock default) is left out: no method reads it.                 *)
(*                                                                         *)
(* src/src/main.rs is the program around the store: main opens the data    *)
(* file, seeds it, fills the AppCache and hands control to the UI, whose    *)
(* callbacks call the methods of the store, some of them while holding the *)
(* Mutex<AppCache>.  ui[t] is the position of t in main or in a callback;  *)
(* the specifications of the store alone leave it idle.                    *)
(***************************************************************************)
EXTENDS Integers, Sequences, FiniteSets, TLC

\* ------------------------------------------------------------------ bounds

\* Number of callers sharing clones of the Database handle.
NumThreads == 2

\* Cap on the rows of inventory_batches (the table is otherwise unbounded).
MaxBatches == 3

\* Number of UI callbacks the user sets off, over all runs of the program.
MaxCalls == 3

\* Number of statements that fail, over all runs of the program.
MaxFaults == 1

Threads == 1..NumThreads

VARIABLES
  stages,             \* table stages(id, name UNIQUE)
  grades,             \* table grades(id, name UNIQUE)
  product_types,      \* table product_types(id, name UNIQUE, specs_keys_json)
  inventory_batches,  \* table inventory_batches(id, name, type_id, ...)
  last_insert_rowid,  \* the connection's sqlite3_last_insert_rowid()
  lock,               \* holder of the Mutex<Connection>, NoThread when free
  pc,                 \* pc[t]: where caller t stands
  arg,                \* arg[t]: the argument of the method t is running
  loc,                \* loc[t]: index into `defaults` in seed_defaults' loops
  ret,                \* ret[t]: the Result the method is about to return
  entry,              \* history: the tables as they were when t took the lock
  seeded,             \* history: some seed_defaults call has returned Ok
  custom,             \* history: insert_stage or insert_grade has been called
  declared,           \* history: product type name -> keys of the creating call
  ui,                 \* ui[t]: where t stands in main or in a UI callback
  cache_lock,         \* holder of the Mutex<AppCache>, NoThread when free
  cache,              \* the AppCache: ids of the listed stages, grades, types
  ncalls,             \* number of UI callbacks started so far
  nfaults,            \* number of statements that have failed so far
  closed              \* history: the tables as the last process exit left them

vars == <<stages, grades, product_types, inventory_batches, last_insert_rowid,
          lock, pc, arg, loc, ret, entry, seeded, custom, declared,
          ui, cache_lock, cache, ncalls, nfaults, closed>>

\* The state of src/src/main.rs, which the methods of the store leave alone.
outer == <<ui, cache_lock, cache, ncalls, nfaults, closed>>

tables == <<stages, grades, product_types, inventory_batches>>

\* ------------------------------------------------------------- values

NoThread == 0
NoArg == "none"
NoRet == [ok |-> FALSE, val |-> "none"]
NoEntry == <<>>

\* rusqlite::Result: Ok(v) or Err(e).
Ok(v) == [ok |-> TRUE, val |-> v]
Err(e) == [ok |-> FALSE, val |-> e]

\* Ok(()) of seed_defaults.
Unit == "()"

\* AppCache { stages: vec![], grades: vec![], types: vec![] }
EmptyCache == [stages |-> <<>>, grades |-> <<>>, types |-> <<>>]

\* A thread that is in no callback and not in main.
UiIdle == [at |-> "idle", a |-> NoArg]

\* The four tables of a data file that does not exist yet.
NewFile == [stages |-> <<>>, grades |-> <<>>, product_types |-> <<>>,
            inventory_batches |-> <<>>]

\* vec!["Unbucked", "Bucked", "Rolled", "Processed"]
StageDefaults == <<"Unbucked", "Bucked", "Rolled", "Processed">>

\* vec!["A", "B", "C", "Trim"]
GradeDefaults == <<"A", "B", "C", "Trim">>

\* ------------------------------------------------------- SQLite tables

RECURSIVE MaxId(_)
\* The largest rowid in use (0 for an empty table).
MaxId(rows) ==
  IF rows = <<>> THEN 0
  ELSE LET m == MaxId(Tail(rows))
       IN IF Head(rows).id > m THEN Head(rows).id ELSE m

\* A plausible slip: the largest rowid in use handed out again.
NextRowidStuck(rows) ==
  IF rows = <<>> THEN 1 ELSE MaxId(rows)

\* id INTEGER PRIMARY KEY without AUTOINCREMENT: SQLite assigns one more than
\* the largest rowid in use, 1 in an empty table.
NextRowid(rows) ==
  IF rows = <<>> THEN 1 ELSE MaxId(rows) + 1

\* name ... UNIQUE: is there a row with this name?
HasName(rows, name) ==
  \E i \in DOMAIN rows : rows[i].name = name

\* SELECT COUNT(*) FROM <table>
Count(rows) == Len(rows)

RECURSIVE InsertSorted(_, _)
InsertSorted(row, sorted) ==
  IF sorted = <<>> THEN <<row>>
  ELSE IF row.id < Head(sorted).id THEN <<row>> \o sorted
  ELSE <<Head(sorted)>> \o InsertSorted(row, Tail(sorted))

RECURSIVE SortById(_)
\* ORDER BY id ASC
SortById(rows) ==
  IF rows = <<>> THEN <<>>
  ELSE InsertSorted(Head(rows), SortById(Tail(rows)))

\* The row a statement inserts: the store assigns the id.
NewRow(rows, r) == [id |-> NextRowid(rows)] @@ r

\* A plausible slip: INSERT OR REPLACE, which on a name conflict deletes the
\* old row and writes the new one under a fresh id.
InsertOrReplace(rows, r) ==
  LET kept == SelectSeq(rows, LAMBDA x : x.name # r.name)
  IN [ok |-> TRUE, rows |-> Append(kept, NewRow(rows, r)), changes |-> 1]

\* INSERT INTO t (...) VALUES (...) on a table with name UNIQUE: a name
\* conflict is SQLITE_CONSTRAINT and the statement writes nothing.
InsertUnique(rows, r) ==
  IF HasName(rows, r.name)
  THEN [ok |-> FALSE, rows |-> rows, changes |-> 0]
  ELSE [ok |-> TRUE, rows |-> Append(rows, NewRow(rows, r)), changes |-> 1]

\* INSERT OR IGNORE INTO t (...) VALUES (...): a name conflict skips the row
\* and the statement succeeds.
InsertOrIgnore(rows, r) ==
  IF HasName(rows, r.name)
  THEN [ok |-> TRUE, rows |-> rows, changes |-> 0]
  ELSE [ok |-> TRUE, rows |-> Append(rows, NewRow(rows, r)), changes |-> 1]

\* A plausible slip: the batch name treated as a key, a batch of a name
\* already stored written over the stored one.
InsertRowUpsert(rows, r) ==
  IF HasName(rows, r.name)
  THEN [ok |-> TRUE,
        rows |-> [i \in DOMAIN rows |->
                    IF rows[i].name = r.name
                    THEN [id |-> rows[i].id] @@ r ELSE rows[i]],
        changes |-> 1]
  ELSE [ok |-> TRUE, rows |-> Append(rows, NewRow(rows, r)), changes |-> 1]

\* INSERT INTO inventory_batches: no UNIQUE column, always one new row.
InsertRow(rows, r) ==
  [ok |-> TRUE, rows |-> Append(rows, NewRow(rows, r)), changes |-> 1]

\* A plausible slip: a statement that inserted no row taken to reset the
\* connection's last rowid.
LastInsertRowidOrZero(res, before) ==
  IF res.changes = 1 THEN res.rows[Len(res.rows)].id ELSE 0

\* conn.last_insert_rowid() after a statement: the rowid of the most recent
\* successful INSERT on the connection; a statement that inserted no row
\* leaves it as it was.
LastInsertRowid(res, before) ==
  IF res.changes = 1 THEN res.rows[Len(res.rows)].id ELSE before

\* --------------------------------------------------------- the mutex

\* A plausible slip: the connection handed out without waiting for the mutex.
LockUnguarded(t) == lock' = t

\* self.conn.lock().unwrap(): blocks until the mutex is free, then holds it.
Lock(t) == lock = NoThread /\ lock' = t

\* Entering a method: its first line takes the lock.
Enter(t, start, a) ==
  /\ pc[t] = "idle"
  /\ Lock(t)
  /\ pc' = [pc EXCEPT ![t] = start]
  /\ arg' = [arg EXCEPT ![t] = a]
  /\ entry' = [entry EXCEPT ![t] =
                 [stages |-> stages, grades |-> grades,
                  product_types |-> product_types,
                  inventory_batches |-> inventory_batches]]

\* pc values at which a method has its result and is about to return.
RetPcs == {"seed_defaults_ret", "insert_stage_ret", "get_all_stages_ret",
           "insert_grade_ret", "get_all_grades_ret", "insert_product_type_ret",
           "get_all_product_types_ret", "insert_inventory_batch_ret",
           "aggregate_stage_totals_ret"}

\* The method returns: the MutexGuard `conn` goes out of scope and unlocks.
Return(t) ==
  /\ pc[t] \in RetPcs
  /\ lock' = NoThread
  /\ seeded' = (seeded \/ (pc[t] = "seed_defaults_ret" /\ ret[t].ok))
  /\ pc' = [pc EXCEPT ![t] = "idle"]
  /\ arg' = [arg EXCEPT ![t] = NoArg]
  /\ loc' = [loc EXCEPT ![t] = 0]
  /\ ret' = [ret EXCEPT ![t] = NoRet]
  /\ entry' = [entry EXCEPT ![t] = NoEntry]
  /\ UNCHANGED <<tables, last_insert_rowid, custom, declared>>

\* The last line of the four insert methods, Ok(conn.last_insert_rowid()):
\* the connection's last rowid as it is when the line runs.
LastInsertRowidCall(t, retpc) ==
  /\ ret' = [ret EXCEPT ![t] = Ok(last_insert_rowid)]
  /\ pc' = [pc EXCEPT ![t] = retpc]
  /\ UNCHANGED outer
  /\ UNCHANGED <<tables, last_insert_rowid, lock, arg, loc, entry, seeded,
                 custom, declared>>

\* ------------------------------------------------------ seed_defaults

\* The positions inside seed_defaults.
SeedPcs == {"seed_count_stages", "seed_insert_stage", "seed_count_grades",
            "seed_insert_grade", "seed_defaults_ret"}

seed_defaults_lock(t) ==
  /\ Enter(t, "seed_count_stages", NoArg)
  /\ UNCHANGED outer
  /\ UNCHANGED <<tables, last_insert_rowid, loc, ret, seeded, custom, declared>>

\* SELECT COUNT(*) FROM stages
StageCountQuery == Count(stages)

\* A plausible slip: the first query pasted unchanged into the grade section.
GradeCountQueryOfStages == Count(stages)

\* SELECT COUNT(*) FROM grades
GradeCountQuery == Count(grades)

\* A plausible slip: the test of the count inverted.
SeedWantedInverted(count) == count # 0

\* if count == 0 { ... }
SeedWanted(count) == count = 0

\* SELECT COUNT(*) FROM stages; if count == 0, prepare the INSERT.
seed_count_stages(t) ==
  /\ pc[t] = "seed_count_stages"
  /\ IF SeedWanted(StageCountQuery)
     THEN /\ pc' = [pc EXCEPT ![t] = "seed_insert_stage"]
          /\ loc' = [loc EXCEPT ![t] = 1]
     ELSE /\ pc' = [pc EXCEPT ![t] = "seed_count_grades"]
          /\ loc' = loc
  /\ UNCHANGED outer
  /\ UNCHANGED <<tables, last_insert_rowid, lock, arg, ret, entry, seeded,
                 custom, declared>>

\* One turn of `for name in defaults { stmt.execute(params![name])?; }`.
seed_insert_stage(t) ==
  /\ pc[t] = "seed_insert_stage"
  /\ LET res == InsertUnique(stages, [name |-> StageDefaults[loc[t]]])
     IN IF ~res.ok
        THEN /\ ret' = [ret EXCEPT ![t] = Err("constraint")]
             /\ pc' = [pc EXCEPT ![t] = "seed_defaults_ret"]
             /\ UNCHANGED <<stages, last_insert_rowid, loc>>
        ELSE /\ stages' = res.rows
             /\ last_insert_rowid' = LastInsertRowid(res, last_insert_rowid)
             /\ ret' = ret
             /\ IF loc[t] = Len(StageDefaults)
                THEN /\ pc' = [pc EXCEPT ![t] = "seed_count_grades"]
                     /\ loc' = [loc EXCEPT ![t] = 0]
                ELSE /\ pc' = pc
                     /\ loc' = [loc EXCEPT ![t] = loc[t] + 1]
  /\ UNCHANGED outer
  /\ UNCHANGED <<grades, product_types, inventory_batches, lock, arg, entry,
                 seeded, custom, declared>>

\* SELECT COUNT(*) FROM grades; if count == 0, prepare the INSERT; else Ok(()).
seed_count_grades(t) ==
  /\ pc[t] = "seed_count_grades"
  /\ IF SeedWanted(GradeCountQuery)
     THEN /\ pc' = [pc EXCEPT ![t] = "seed_insert_grade"]
          /\ loc' = [loc EXCEPT ![t] = 1]
          /\ ret' = ret
     ELSE /\ pc' = [pc EXCEPT ![t] = "seed_defaults_ret"]
          /\ loc' = loc
          /\ ret' = [ret EXCEPT ![t] = Ok(Unit)]
  /\ UNCHANGED outer
  /\ UNCHANGED <<tables, last_insert_rowid, lock, arg, entry, seeded, custom,
                 declared>>

\* One turn of the grade loop; after the last one the method returns Ok(()).
seed_insert_grade(t) ==
  /\ pc[t] = "seed_insert_grade"
  /\ LET res == InsertUnique(grades, [name |-> GradeDefaults[loc[t]]])
     IN IF ~res.ok
        THEN /\ ret' = [ret EXCEPT ![t] = Err("constraint")]
             /\ pc' = [pc EXCEPT ![t] = "seed_defaults_ret"]
             /\ UNCHANGED <<grades, last_insert_rowid, loc>>
        ELSE /\ grades' = res.rows
             /\ last_insert_rowid' = LastInsertRowid(res, last_insert_rowid)
             /\ IF loc[t] = Len(GradeDefaults)
                THEN /\ pc' = [pc EXCEPT ![t] = "seed_defaults_ret"]
                     /\ loc' = [loc EXCEPT ![t] = 0]
                     /\ ret' = [ret EXCEPT ![t] = Ok(Unit)]
                ELSE /\ pc' = pc
                     /\ loc' = [loc EXCEPT ![t] = loc[t] + 1]
                     /\ ret' = ret
  /\ UNCHANGED outer
  /\ UNCHANGED <<stages, product_types, inventory_batches, lock, arg, entry,
                 seeded, custom, declared>>

\* ------------------------------------------------- stages and grades

\* The names of this model in the order BINARY collation sorts them.
NameOrder == <<"A", "B", "Bucked", "C", "Processed", "Rolled", "Trim",
               "Unbucked", "Z">>

NameRank(name) == CHOOSE i \in DOMAIN NameOrder : NameOrder[i] = name

RECURSIVE InsertByName(_, _)
InsertByName(row, sorted) ==
  IF sorted = <<>> THEN <<row>>
  ELSE IF NameRank(row.name) < NameRank(Head(sorted).name)
       THEN <<row>> \o sorted
       ELSE <<Head(sorted)>> \o InsertByName(row, Tail(sorted))

RECURSIVE SortByName(_)
SortByName(rows) ==
  IF rows = <<>> THEN <<>>
  ELSE InsertByName(Head(rows), SortByName(Tail(rows)))

\* A plausible slip: the listing ordered by name instead of id.
SelectIdNameByName(rows) ==
  LET s == SortByName(rows)
  IN [i \in DOMAIN s |-> <<s[i].id, s[i].name>>]

\* SELECT id, name FROM <table> ORDER BY id ASC, collected into a Vec of
\* (id, name) pairs.
SelectIdName(rows) ==
  LET s == SortById(rows)
  IN [i \in DOMAIN s |-> <<s[i].id, s[i].name>>]

insert_stage_lock(t, names) ==
  /\ \E name \in names : Enter(t, "insert_stage_exec", name)
  /\ custom' = TRUE
  /\ UNCHANGED outer
  /\ UNCHANGED <<tables, last_insert_rowid, loc, ret, seeded, declared>>

\* conn.execute("INSERT OR IGNORE INTO stages (name) VALUES (?1)", ..)?
insert_stage_exec(t) ==
  /\ pc[t] = "insert_stage_exec"
  /\ LET res == InsertOrIgnore(stages, [name |-> arg[t]])
     IN /\ stages' = res.rows
        /\ last_insert_rowid' = LastInsertRowid(res, last_insert_rowid)
        /\ IF res.ok
           THEN /\ pc' = [pc EXCEPT ![t] = "insert_stage_rowid"]
                /\ ret' = ret
           ELSE /\ pc' = [pc EXCEPT ![t] = "insert_stage_ret"]
                /\ ret' = [ret EXCEPT ![t] = Err("sql")]
  /\ UNCHANGED outer
  /\ UNCHANGED <<grades, product_types, inventory_batches, lock, arg, loc,
                 entry, seeded, custom, declared>>

\* Ok(conn.last_insert_rowid())
insert_stage_rowid(t) ==
  /\ pc[t] = "insert_stage_rowid"
  /\ LastInsertRowidCall(t, "insert_stage_ret")

get_all_stages_lock(t) ==
  /\ Enter(t, "get_all_stages_exec", NoArg)
  /\ UNCHANGED outer
  /\ UNCHANGED <<tables, last_insert_rowid, loc, ret, seeded, custom, declared>>

get_all_stages_exec(t) ==
  /\ pc[t] = "get_all_stages_exec"
  /\ ret' = [ret EXCEPT ![t] = Ok(SelectIdName(stages))]
  /\ pc' = [pc EXCEPT ![t] = "get_all_stages_ret"]
  /\ UNCHANGED outer
  /\ UNCHANGED <<tables, last_insert_rowid, lock, arg, loc, entry, seeded,
                 custom, declared>>

insert_grade_lock(t, names) ==
  /\ \E name \in names : Enter(t, "insert_grade_exec", name)
  /\ custom' = TRUE
  /\ UNCHANGED outer
  /\ UNCHANGED <<tables, last_insert_rowid, loc, ret, seeded, declared>>

\* conn.execute("INSERT OR IGNORE INTO grades (name) VALUES (?1)", ..)?
insert_grade_exec(t) ==
  /\ pc[t] = "insert_grade_exec"
  /\ LET res == InsertOrIgnore(grades, [name |-> arg[t]])
     IN /\ grades' = res.rows
        /\ last_insert_rowid' = LastInsertRowid(res, last_insert_rowid)
        /\ IF res.ok
           THEN /\ pc' = [pc EXCEPT ![t] = "insert_grade_rowid"]
                /\ ret' = ret
           ELSE /\ pc' = [pc EXCEPT ![t] = "insert_grade_ret"]
                /\ ret' = [ret EXCEPT ![t] = Err("sql")]
  /\ UNCHANGED outer
  /\ UNCHANGED <<stages, product_types, inventory_batches, lock, arg, loc,
                 entry, seeded, custom, declared>>

\* Ok(conn.last_insert_rowid())
insert_grade_rowid(t) ==
  /\ pc[t] = "insert_grade_rowid"
  /\ LastInsertRowidCall(t, "insert_grade_ret")

get_all_grades_lock(t) ==
  /\ Enter(t, "get_all_grades_exec", NoArg)
  /\ UNCHANGED outer
  /\ UNCHANGED <<tables, last_insert_rowid, loc, ret, seeded, custom, declared>>

get_all_grades_exec(t) ==
  /\ pc[t] = "get_all_grades_exec"
  /\ ret' = [ret EXCEPT ![t] = Ok(SelectIdName(grades))]
  /\ pc' = [pc EXCEPT ![t] = "get_all_grades_ret"]
  /\ UNCHANGED outer
  /\ UNCHANGED <<tables, last_insert_rowid, lock, arg, loc, entry, seeded,
                 custom, declared>>

\* ------------------------------------------------ serde_json texts

\* A JSON text is the sequence of its tokens; a string token carries the
\* string it denotes (its quoting and escaping are left to serde_json).
Tok(k, v) == [k |-> k, v |-> v]
LB == Tok("[", "")
RB == Tok("]", "")
LBRACE == Tok("{", "")
RBRACE == Tok("}", "")
COMMA == Tok(",", "")
COLON == Tok(":", "")
StrTok(s) == Tok("str", s)
NumTok(n) == Tok("num", n)
NULLTOK == Tok("null", "")

\* An f64: a finite value in tenths, or one of the non-finite values.
Fin(x) == [fin |-> TRUE, v |-> x]
NaN == [fin |-> FALSE, v |-> 0]
Inf == [fin |-> FALSE, v |-> 1]

\* serde_json's serialize_f64: a finite value as a number, NaN and the
\* infinities as null; no value makes it fail.
FloatTok(x) == IF x.fin THEN NumTok(x.v) ELSE NULLTOK

RECURSIVE ListElems(_)
\* The elements of a JSON array of strings, comma separated.
ListElems(keys) ==
  IF keys = <<>> THEN <<>>
  ELSE IF Len(keys) = 1 THEN <<StrTok(keys[1])>>
  ELSE <<StrTok(keys[1]), COMMA>> \o ListElems(Tail(keys))

\* A plausible slip: the keys written as a set, each key once.
RECURSIVE Dedup(_)
Dedup(keys) ==
  IF keys = <<>> THEN <<>>
  ELSE LET rest == Dedup(Tail(keys))
       IN IF \E i \in DOMAIN rest : rest[i] = Head(keys)
          THEN rest ELSE <<Head(keys)>> \o rest

ListToJsonDedup(keys) == Ok(<<LB>> \o ListElems(Dedup(keys)) \o <<RB>>)

\* serde_json::to_string(&Vec<String>): never fails for a list of strings.
ListToJson(keys) == Ok(<<LB>> \o ListElems(keys) \o <<RB>>)

RECURSIVE ParseElems(_, _, _)
\* After '[' and a first non-']' token: string (',' string)* ']' and then the
\* end of the text; anything else is a parse error.
ParseElems(text, i, acc) ==
  IF i > Len(text) \/ text[i].k # "str" THEN Err("json")
  ELSE LET acc2 == Append(acc, text[i].v)
       IN IF i + 1 > Len(text) THEN Err("json")
          ELSE IF text[i + 1].k = "," THEN ParseElems(text, i + 2, acc2)
          ELSE IF text[i + 1].k = "]"
               THEN (IF i + 1 = Len(text) THEN Ok(acc2) ELSE Err("json"))
          ELSE Err("json")

\* serde_json::from_str::<Vec<String>>(text)
ListFromJson(text) ==
  IF Len(text) < 2 \/ text[1].k # "[" THEN Err("json")
  ELSE IF text[2].k = "]"
       THEN (IF Len(text) = 2 THEN Ok(<<>>) ELSE Err("json"))
  ELSE ParseElems(text, 2, <<>>)

\* A plausible slip: the parse error passed on with `?`.
DecodeKeysStrict(text) == ListFromJson(text)

\* serde_json::from_str(&json_str).unwrap_or_default(): the keys, or the
\* empty Vec when the text does not parse.
DecodeKeys(text) ==
  LET p == ListFromJson(text)
  IN IF p.ok THEN Ok(p.val) ELSE Ok(<<>>)

RECURSIVE MapElems(_, _)
\* The members of a JSON object, in the map's iteration order.
MapElems(specs, ks) ==
  IF ks = {} THEN <<>>
  ELSE LET k == CHOOSE x \in ks : TRUE
           rest == MapElems(specs, ks \ {k})
       IN <<StrTok(k), COLON, FloatTok(specs[k])>>
          \o (IF rest = <<>> THEN <<>> ELSE <<COMMA>> \o rest)

\* serde_json::to_string(&HashMap<String, f64>): never fails for a map from
\* strings to f64.
SpecsToJson(specs) ==
  Ok(<<LBRACE>> \o MapElems(specs, DOMAIN specs) \o <<RBRACE>>)

RECURSIVE ParseMembers(_, _, _)
\* After '{' and a first non-'}' token: string ':' number (',' string ':'
\* number)* '}' and then the end of the text; anything else, a null in the
\* place of a number included, is an error.
ParseMembers(text, i, acc) ==
  IF i + 3 > Len(text) THEN Err("json")
  ELSE IF text[i].k # "str" \/ text[i + 1].k # ":" \/ text[i + 2].k # "num"
       THEN Err("json")
  ELSE LET acc2 == acc \cup {<<text[i].v, text[i + 2].v>>}
       IN IF text[i + 3].k = "," THEN ParseMembers(text, i + 4, acc2)
          ELSE IF text[i + 3].k = "}"
               THEN (IF i + 3 = Len(text) THEN Ok(acc2) ELSE Err("json"))
          ELSE Err("json")

\* serde_json::from_str::<HashMap<String, f64>>(text): the (key, value)
\* pairs of the object.
SpecsFromJson(text) ==
  IF Len(text) < 2 \/ text[1].k # "{" THEN Err("json")
  ELSE IF text[2].k = "}"
       THEN (IF Len(text) = 2 THEN Ok({}) ELSE Err("json"))
  ELSE ParseMembers(text, 2, {})

\* ------------------------------------------------------ product types

insert_product_type_lock(t, inputs) ==
  /\ \E a \in inputs : Enter(t, "insert_product_type_exec", a)
  /\ UNCHANGED outer
  /\ UNCHANGED <<tables, last_insert_rowid, loc, ret, seeded, custom, declared>>

\* to_string(&specs_keys)?; conn.execute("INSERT OR IGNORE INTO product_types
\* (name, specs_keys_json) VALUES (?1, ?2)", ..)?
insert_product_type_exec(t) ==
  /\ pc[t] = "insert_product_type_exec"
  /\ LET specs_json == ListToJson(arg[t].keys)
     IN IF ~specs_json.ok
        THEN /\ ret' = [ret EXCEPT ![t] = Err("ToSqlConversionFailure")]
             /\ pc' = [pc EXCEPT ![t] = "insert_product_type_ret"]
             /\ UNCHANGED <<product_types, last_insert_rowid, declared>>
        ELSE LET res == InsertOrIgnore(product_types,
                          [name |-> arg[t].name,
                           specs_keys_json |-> specs_json.val])
             IN /\ product_types' = res.rows
                /\ last_insert_rowid' = LastInsertRowid(res, last_insert_rowid)
                /\ declared' = IF res.changes = 1
                               THEN Append(declared, arg[t])
                               ELSE declared
                /\ IF res.ok
                   THEN /\ pc' = [pc EXCEPT ![t] = "insert_product_type_rowid"]
                        /\ ret' = ret
                   ELSE /\ pc' = [pc EXCEPT ![t] = "insert_product_type_ret"]
                        /\ ret' = [ret EXCEPT ![t] = Err("sql")]
  /\ UNCHANGED outer
  /\ UNCHANGED <<stages, grades, inventory_batches, lock, arg, loc, entry,
                 seeded, custom>>

\* Ok(conn.last_insert_rowid())
insert_product_type_rowid(t) ==
  /\ pc[t] = "insert_product_type_rowid"
  /\ LastInsertRowidCall(t, "insert_product_type_ret")

\* SELECT id, name, specs_keys_json FROM product_types ORDER BY id ASC; each
\* row mapped by the closure; `result.push(r?)` stops at the first Err.
SelectProductTypes(rows) ==
  LET s == SortById(rows)
      keys == [i \in DOMAIN s |-> DecodeKeys(s[i].specs_keys_json)]
  IN IF \E i \in DOMAIN s : ~keys[i].ok
     THEN Err("row")
     ELSE Ok([i \in DOMAIN s |-> <<s[i].id, s[i].name, keys[i].val>>])

get_all_product_types_lock(t) ==
  /\ Enter(t, "get_all_product_types_exec", NoArg)
  /\ UNCHANGED outer
  /\ UNCHANGED <<tables, last_insert_rowid, loc, ret, seeded, custom, declared>>

get_all_product_types_exec(t) ==
  /\ pc[t] = "get_all_product_types_exec"
  /\ ret' = [ret EXCEPT ![t] = SelectProductTypes(product_types)]
  /\ pc' = [pc EXCEPT ![t] = "get_all_product_types_ret"]
  /\ UNCHANGED outer
  /\ UNCHANGED <<tables, last_insert_rowid, lock, arg, loc, entry, seeded,
                 custom, declared>>

\* -------------------------------------------------- inventory batches

\* The call is taken up only while the table is below the model's cap.
insert_inventory_batch_lock(t, inputs) ==
  /\ Len(inventory_batches) < MaxBatches
  /\ \E b \in inputs : Enter(t, "insert_inventory_batch_exec", b)
  /\ UNCHANGED outer
  /\ UNCHANGED <<tables, last_insert_rowid, loc, ret, seeded, custom, declared>>

\* to_string(&b.specs)?; conn.execute("INSERT INTO inventory_batches (...)
\* VALUES (...)", ..)?
insert_inventory_batch_exec(t) ==
  /\ pc[t] = "insert_inventory_batch_exec"
  /\ LET b == arg[t]
         specs_str == SpecsToJson(b.specs)
     IN IF ~specs_str.ok
        THEN /\ ret' = [ret EXCEPT ![t] = Err("ToSqlConversionFailure")]
             /\ pc' = [pc EXCEPT ![t] = "insert_inventory_batch_ret"]
             /\ UNCHANGED <<inventory_batches, last_insert_rowid>>
        ELSE LET res == InsertRow(inventory_batches,
                          [name |-> b.name, type_id |-> b.type_id,
                           grade_id |-> b.grade_id, stage_id |-> b.stage_id,
                           weight |-> b.weight, price |-> b.price,
                           specs_json |-> specs_str.val])
             IN /\ inventory_batches' = res.rows
                /\ last_insert_rowid' = LastInsertRowid(res, last_insert_rowid)
                /\ IF res.ok
                   THEN /\ pc' = [pc EXCEPT ![t] =
                                    "insert_inventory_batch_rowid"]
                        /\ ret' = ret
                   ELSE /\ pc' = [pc EXCEPT ![t] =
                                    "insert_inventory_batch_ret"]
                        /\ ret' = [ret EXCEPT ![t] = Err("sql")]
  /\ UNCHANGED outer
  /\ UNCHANGED <<stages, grades, product_types, lock, arg, loc, entry, seeded,
                 custom, declared>>

\* Ok(conn.last_insert_rowid())
insert_inventory_batch_rowid(t) ==
  /\ pc[t] = "insert_inventory_batch_rowid"
  /\ LastInsertRowidCall(t, "insert_inventory_batch_ret")

\* An SQL value that may be NULL.
SqlNull == [null |-> TRUE, v |-> 0]
SqlReal(x) == [null |-> FALSE, v |-> x]

\* ... WHERE stage_id = ?1
WhereStage(rows, stage_id) ==
  SelectSeq(rows, LAMBDA r : r.stage_id = stage_id)

RECURSIVE Total(_)
Total(rows) ==
  IF rows = <<>> THEN 0 ELSE Head(rows).weight + Total(Tail(rows))

\* SUM(weight): NULL over no rows.
SqlSum(rows) ==
  IF rows = <<>> THEN SqlNull ELSE SqlReal(Total(rows))

\* A plausible slip: SUM(weight) selected without COALESCE.
CoalesceDropped(x, d) == x

\* COALESCE(x, d)
Coalesce(x, d) == IF x.null THEN SqlReal(d) ELSE x

\* SELECT COALESCE(SUM(weight), 0.0), COUNT(*) FROM inventory_batches WHERE
\* stage_id = ?1, read as (f64, usize): a NULL in column 0 is a conversion
\* error.
SelectStageTotals(rows, stage_id) ==
  LET m == WhereStage(rows, stage_id)
      c0 == Coalesce(SqlSum(m), 0)
      c1 == Count(m)
  IN IF c0.null THEN Err("InvalidColumnType") ELSE Ok(<<c0.v, c1>>)

aggregate_stage_totals_lock(t, ids) ==
  /\ \E stage_id \in ids : Enter(t, "aggregate_stage_totals_exec", stage_id)
  /\ UNCHANGED outer
  /\ UNCHANGED <<tables, last_insert_rowid, loc, ret, seeded, custom, declared>>

aggregate_stage_totals_exec(t) ==
  /\ pc[t] = "aggregate_stage_totals_exec"
  /\ ret' = [ret EXCEPT ![t] = SelectStageTotals(inventory_batches, arg[t])]
  /\ pc' = [pc EXCEPT ![t] = "aggregate_stage_totals_ret"]
  /\ UNCHANGED outer
  /\ UNCHANGED <<tables, last_insert_rowid, lock, arg, loc, entry, seeded,
                 custom, declared>>

\* ------------------------------------------------------ specifications

\* The store right after Database::open on a new data file: four empty
\* tables, no insert yet on the connection, the mutex free.
Init ==
  /\ stages = <<>>
  /\ grades = <<>>
  /\ product_types = <<>>
  /\ inventory_batches = <<>>
  /\ last_insert_rowid = 0
  /\ lock = NoThread
  /\ pc = [t \in Threads |-> "idle"]
  /\ arg = [t \in Threads |-> NoArg]
  /\ loc = [t \in Threads |-> 0]
  /\ ret = [t \in Threads |-> NoRet]
  /\ entry = [t \in Threads |-> NoEntry]
  /\ seeded = FALSE
  /\ custom = FALSE
  /\ declared = <<>>
  /\ ui = [t \in Threads |-> UiIdle]
  /\ cache_lock = NoThread
  /\ cache = EmptyCache
  /\ ncalls = 0
  /\ nfaults = 0
  /\ closed = NewFile

\* Names the callers pass to insert_stage and insert_grade: new names whose
\* alphabetical order is the reverse of their insertion order, and a name
\* of each baseline list.
StageNames == {"Z", "A", "Bucked"}
GradeNames == {"Z", "A"}

\* Seeding and the stage and grade methods, called by every thread in any
\* order with any of the names above.
NextConfig ==
  \E t \in Threads :
    \/ seed_defaults_lock(t)
    \/ seed_count_stages(t)
    \/ seed_insert_stage(t)
    \/ seed_count_grades(t)
    \/ seed_insert_grade(t)
    \/ insert_stage_lock(t, StageNames)
    \/ insert_stage_exec(t)
    \/ insert_stage_rowid(t)
    \/ get_all_stages_lock(t)
    \/ get_all_stages_exec(t)
    \/ insert_grade_lock(t, GradeNames)
    \/ insert_grade_exec(t)
    \/ insert_grade_rowid(t)
    \/ get_all_grades_lock(t)
    \/ get_all_grades_exec(t)
    \/ Return(t) /\ UNCHANGED outer

SpecConfig == Init /\ [][NextConfig]_vars

\* Product types the callers declare: two names, and key lists that are
\* empty, ordered, and repeating a key.
TypeNames == {"Blue Dream", "Haze"}
KeyLists == {<<>>, <<"THC", "Terpenes">>, <<"THC", "THC">>}
TypeInputs == [name : TypeNames, keys : KeyLists]

\* Stored key-list texts that are no JSON array of strings: the empty text,
\* a truncated array, an object, an array of a number, a trailing comma.
CorruptTexts ==
  { <<>>,
    <<LB, StrTok("THC")>>,
    <<LBRACE, RBRACE>>,
    <<LB, NumTok("1"), RB>>,
    <<LB, StrTok("THC"), COMMA, RB>> }

\* What product_types may hold when Database::open finds an existing data
\* file (CREATE TABLE IF NOT EXISTS keeps its rows): nothing, or rows left by
\* an earlier run, some with a damaged specs_keys_json.
PriorProductTypes ==
  { <<>> }
  \cup { <<[id |-> 1, name |-> "Legacy", specs_keys_json |-> c]>> :
           c \in CorruptTexts }
  \cup { <<[id |-> 2, name |-> "Kush",
            specs_keys_json |-> ListToJson(<<"CBD", "THC">>).val],
           [id |-> 7, name |-> "Legacy", specs_keys_json |-> c]>> :
           c \in {<<>>, <<LB, StrTok("THC")>>} }

InitTypes ==
  /\ stages = <<>>
  /\ grades = <<>>
  /\ product_types \in PriorProductTypes
  /\ inventory_batches = <<>>
  /\ last_insert_rowid = 0
  /\ lock = NoThread
  /\ pc = [t \in Threads |-> "idle"]
  /\ arg = [t \in Threads |-> NoArg]
  /\ loc = [t \in Threads |-> 0]
  /\ ret = [t \in Threads |-> NoRet]
  /\ entry = [t \in Threads |-> NoEntry]
  /\ seeded = FALSE
  /\ custom = FALSE
  /\ declared = <<>>
  /\ ui = [t \in Threads |-> UiIdle]
  /\ cache_lock = NoThread
  /\ cache = EmptyCache
  /\ ncalls = 0
  /\ nfaults = 0
  /\ closed = NewFile

\* The product type methods over a data file that may hold earlier rows.
NextTypes ==
  \E t \in Threads :
    \/ insert_product_type_lock(t, TypeInputs)
    \/ insert_product_type_exec(t)
    \/ insert_product_type_rowid(t)
    \/ get_all_product_types_lock(t)
    \/ get_all_product_types_exec(t)
    \/ Return(t) /\ UNCHANGED outer

SpecTypes == InitTypes /\ [][NextTypes]_vars

\* Batches the callers insert: two stage ids, weights 0.0, 2.5 and 10.0.
BatchStageIds == {1, 5}
Weights == {0, 25, 100}
BatchInputs ==
  [name : {"Lot"}, type_id : {1}, grade_id : {2}, stage_id : BatchStageIds,
   weight : Weights, price : {30}, specs : {[THC |-> Fin(125)]}]

\* Stage ids the callers aggregate: the two in use, and one no batch and no
\* stage row ever has.
AggStageIds == BatchStageIds \cup {9}

\* Batch inserts and stage aggregation.
NextBatch ==
  \E t \in Threads :
    \/ insert_inventory_batch_lock(t, BatchInputs)
    \/ insert_inventory_batch_exec(t)
    \/ insert_inventory_batch_rowid(t)
    \/ aggregate_stage_totals_lock(t, AggStageIds)
    \/ aggregate_stage_totals_exec(t)
    \/ Return(t) /\ UNCHANGED outer

SpecBatch == Init /\ [][NextBatch]_vars

\* Every method of the store, each with a small choice of arguments.
AllStageNames == {"Z", "Bucked"}
AllGradeNames == {"A", "Z"}
AllTypeInputs == [name : {"Blue Dream"}, keys : {<<>>, <<"THC", "Terpenes">>}]
AllBatchInputs ==
  [name : {"Lot"}, type_id : {1}, grade_id : {2}, stage_id : BatchStageIds,
   weight : {25}, price : {30}, specs : {<<>>}]

Next ==
  \E t \in Threads :
    \/ seed_defaults_lock(t)
    \/ seed_count_stages(t)
    \/ seed_insert_stage(t)
    \/ seed_count_grades(t)
    \/ seed_insert_grade(t)
    \/ insert_stage_lock(t, AllStageNames)
    \/ insert_stage_exec(t)
    \/ insert_stage_rowid(t)
    \/ get_all_stages_lock(t)
    \/ get_all_stages_exec(t)
    \/ insert_grade_lock(t, AllGradeNames)
    \/ insert_grade_exec(t)
    \/ insert_grade_rowid(t)
    \/ get_all_grades_lock(t)
    \/ get_all_grades_exec(t)
    \/ insert_product_type_lock(t, AllTypeInputs)
    \/ insert_product_type_exec(t)
    \/ insert_product_type_rowid(t)
    \/ get_all_product_types_lock(t)
    \/ get_all_product_types_exec(t)
    \/ insert_inventory_batch_lock(t, AllBatchInputs)
    \/ insert_inventory_batch_exec(t)
    \/ insert_inventory_batch_rowid(t)
    \/ aggregate_stage_totals_lock(t, AggStageIds)
    \/ aggregate_stage_totals_exec(t)
    \/ Return(t) /\ UNCHANGED outer

Spec == Init /\ [][Next]_vars

\* ------------------------------------------------ the program: main.rs

\* The state of the store, which main.rs reaches only through its methods.
store == <<stages, grades, product_types, inventory_batches,
           last_insert_rowid, lock, pc, arg, loc, ret, entry, seeded, custom,
           declared>>

\* The thread that runs main.
MainThread == 1

MainPositions == {"main_open", "main_seed", "open_failed"}

RefreshPositions == {"refresh_lock", "refresh_stages", "refresh_grades",
                     "refresh_types", "refresh_unlock"}

\* main has not reached ui.run() yet: no callback can be set off.
InMain ==
  \/ ui[MainThread].at \in MainPositions
  \/ ui[MainThread].at \in RefreshPositions /\ ui[MainThread].a = "main"

Goto(t, at) == ui' = [ui EXCEPT ![t].at = at]

\* A plausible slip: a create that starts from an empty table.
CreateTable(rows) == <<>>

\* CREATE TABLE IF NOT EXISTS: a table the data file holds is kept with all
\* its rows; a table it lacks starts empty.
CreateTableIfNotExists(rows) == rows

\* let db = Database::open("urt_ledger.db").expect(..): a new connection on
\* the data file, behind a new mutex.
main_open(t) ==
  /\ t = MainThread
  /\ ui[t].at = "main_open"
  /\ stages' = CreateTableIfNotExists(stages)
  /\ grades' = CreateTableIfNotExists(grades)
  /\ product_types' = CreateTableIfNotExists(product_types)
  /\ inventory_batches' = CreateTableIfNotExists(inventory_batches)
  /\ last_insert_rowid' = 0
  /\ lock' = NoThread
  /\ Goto(t, "main_seed")
  /\ UNCHANGED <<pc, arg, loc, ret, entry, seeded, custom, declared,
                 cache_lock, cache, ncalls, nfaults, closed>>

\* let _ = db.seed_defaults(): the call
main_seed_defaults(t) ==
  /\ t = MainThread
  /\ ui[t].at = "main_seed"
  /\ seed_defaults_lock(t)

\* ... and its return, the result dropped; then the empty AppCache and the
\* call of refresh_lists.
main_seeded(t) ==
  /\ t = MainThread
  /\ ui[t].at = "main_seed"
  /\ pc[t] = "seed_defaults_ret"
  /\ Return(t)
  /\ cache' = EmptyCache
  /\ ui' = [ui EXCEPT ![t] = [at |-> "refresh_lock", a |-> "main"]]
  /\ UNCHANGED <<cache_lock, ncalls, nfaults, closed>>

\* A plausible slip: the guard of the cache leaked instead of dropped.
CacheUnlockForgotten(t) == cache_lock' = cache_lock

\* c.lock().unwrap(): blocks until the cache mutex is free, then holds it.
CacheLock(t) == cache_lock = NoThread /\ cache_lock' = t

\* The guard `cache` goes out of scope at the end of the function or closure.
CacheUnlock(t) == cache_lock' = NoThread

\* refresh_lists: let mut cache = cache.lock().unwrap();
refresh_lists_lock(t) ==
  /\ ui[t].at = "refresh_lock"
  /\ CacheLock(t)
  /\ Goto(t, "refresh_stages")
  /\ UNCHANGED <<store, cache, ncalls, nfaults, closed>>

\* items.iter().map(|(id, _)| *id).collect()
IdsOf(items) == [i \in DOMAIN items |-> items[i][1]]

\* items.iter().map(|(id, _, keys)| (*id, keys.clone())).collect()
IdsKeysOf(items) == [i \in DOMAIN items |-> <<items[i][1], items[i][3]>>]

\* if let Ok(items) = db.get_all_stages() { cache.stages = ...; }
refresh_get_all_stages(t) ==
  /\ ui[t].at = "refresh_stages"
  /\ get_all_stages_lock(t)

refresh_stages_got(t) ==
  /\ ui[t].at = "refresh_stages"
  /\ pc[t] = "get_all_stages_ret"
  /\ Return(t)
  /\ cache' = IF ret[t].ok
              THEN [cache EXCEPT !.stages = IdsOf(ret[t].val)] ELSE cache
  /\ Goto(t, "refresh_grades")
  /\ UNCHANGED <<cache_lock, ncalls, nfaults, closed>>

\* if let Ok(items) = db.get_all_grades() { cache.grades = ...; }
refresh_get_all_grades(t) ==
  /\ ui[t].at = "refresh_grades"
  /\ get_all_grades_lock(t)

refresh_grades_got(t) ==
  /\ ui[t].at = "refresh_grades"
  /\ pc[t] = "get_all_grades_ret"
  /\ Return(t)
  /\ cache' = IF ret[t].ok
              THEN [cache EXCEPT !.grades = IdsOf(ret[t].val)] ELSE cache
  /\ Goto(t, "refresh_types")
  /\ UNCHANGED <<cache_lock, ncalls, nfaults, closed>>

\* if let Ok(items) = db.get_all_product_types() { cache.types = ...; }
refresh_get_all_product_types(t) ==
  /\ ui[t].at = "refresh_types"
  /\ get_all_product_types_lock(t)

refresh_types_got(t) ==
  /\ ui[t].at = "refresh_types"
  /\ pc[t] = "get_all_product_types_ret"
  /\ Return(t)
  /\ cache' = IF ret[t].ok
              THEN [cache EXCEPT !.types = IdsKeysOf(ret[t].val)] ELSE cache
  /\ Goto(t, "refresh_unlock")
  /\ UNCHANGED <<cache_lock, ncalls, nfaults, closed>>

\* The end of refresh_lists: the cache guard is dropped; main goes on to
\* ui.run(), a callback returns to the event loop.
refresh_lists_unlock(t) ==
  /\ ui[t].at = "refresh_unlock"
  /\ CacheUnlock(t)
  /\ ui' = [ui EXCEPT ![t] = UiIdle]
  /\ UNCHANGED <<store, cache, ncalls, nfaults, closed>>

\* The user sets off a callback: the event loop is running, the thread is in
\* no other callback, and the model's budget of callbacks is not used up.
Start(t, at, a) ==
  /\ ~InMain
  /\ ui[t].at = "idle"
  /\ ncalls < MaxCalls
  /\ ncalls' = ncalls + 1
  /\ ui' = [ui EXCEPT ![t] = [at |-> at, a |-> a]]
  /\ UNCHANGED <<store, cache_lock, cache, nfaults, closed>>

\* The return of a method of the store whose result the callback drops;
\* the callback goes on to refresh_lists.
ReturnToRefresh(t) ==
  /\ Return(t)
  /\ ui' = [ui EXCEPT ![t] = [at |-> "refresh_lock", a |-> NoArg]]
  /\ UNCHANGED <<cache_lock, cache, ncalls, nfaults, closed>>

\* on_add_new_stage: if !name.is_empty() { let _ = db.insert_stage(..); }
\* refresh_lists(..)
on_add_new_stage(t, names) ==
  \E name \in names :
    IF name = "" THEN Start(t, "refresh_lock", NoArg)
    ELSE Start(t, "add_new_stage", name)

add_new_stage_insert(t) ==
  /\ ui[t].at = "add_new_stage"
  /\ insert_stage_lock(t, {ui[t].a})

add_new_stage_inserted(t) ==
  /\ ui[t].at = "add_new_stage"
  /\ pc[t] = "insert_stage_ret"
  /\ ReturnToRefresh(t)

\* on_add_new_grade: if !name.is_empty() { let _ = db.insert_grade(..); }
\* refresh_lists(..)
on_add_new_grade(t, names) ==
  \E name \in names :
    IF name = "" THEN Start(t, "refresh_lock", NoArg)
    ELSE Start(t, "add_new_grade", name)

add_new_grade_insert(t) ==
  /\ ui[t].at = "add_new_grade"
  /\ insert_grade_lock(t, {ui[t].a})

add_new_grade_inserted(t) ==
  /\ ui[t].at = "add_new_grade"
  /\ pc[t] = "insert_grade_ret"
  /\ ReturnToRefresh(t)

\* specs_str.split(',').map(|s| s.trim().to_string()).filter(|s|
\* !s.is_empty()).collect(): a text is kept as the sequence of its comma
\* separated pieces, each piece as what trim leaves of it.
SplitKeys(specs_str) == SelectSeq(specs_str, LAMBDA piece : piece # "")

\* on_add_new_type: if !name.is_empty() { keys = ..; let _ =
\* db.insert_product_type(name, keys); } refresh_lists(..)
on_add_new_type(t, inputs) ==
  \E a \in inputs :
    IF a.name = "" THEN Start(t, "refresh_lock", NoArg)
    ELSE Start(t, "add_new_type", a)

add_new_type_insert(t) ==
  /\ ui[t].at = "add_new_type"
  /\ insert_product_type_lock(t, {[name |-> ui[t].a.name,
                                   keys |-> SplitKeys(ui[t].a.specs_str)]})

add_new_type_inserted(t) ==
  /\ ui[t].at = "add_new_type"
  /\ pc[t] = "insert_product_type_ret"
  /\ ReturnToRefresh(t)

\* on_type_selected: let cache = c.lock().unwrap(); the fields of the
\* selected type are shown; the guard is dropped at the end of the closure.
on_type_selected(t, indexes) ==
  \E index \in indexes : Start(t, "type_selected_lock", index)

type_selected_lock(t) ==
  /\ ui[t].at = "type_selected_lock"
  /\ CacheLock(t)
  /\ Goto(t, "type_selected_unlock")
  /\ UNCHANGED <<store, cache, ncalls, nfaults, closed>>

type_selected_unlock(t) ==
  /\ ui[t].at = "type_selected_unlock"
  /\ CacheUnlock(t)
  /\ ui' = [ui EXCEPT ![t] = UiIdle]
  /\ UNCHANGED <<store, cache, ncalls, nfaults, closed>>

\* The texts of this model that str::parse::<f64> accepts, each with its
\* value; it accepts "NaN" and "inf" as it accepts decimal numbers.
F64Texts == { <<"12.5", Fin(125)>>, <<"10.0", Fin(100)>>, <<"2.5", Fin(25)>>,
              <<"-2.5", Fin(-25)>>, <<"NaN", NaN>>, <<"inf", Inf>> }

\* text.parse::<f64>()
ParseF64(text) ==
  IF \E p \in F64Texts : p[1] = text
  THEN Ok((CHOOSE p \in F64Texts : p[1] = text)[2])
  ELSE Err("ParseFloatError")

\* .unwrap_or(d)
UnwrapOr(r, d) == IF r.ok THEN r.val ELSE d

\* list.get(index as usize) with a default: the element at a 0-based index,
\* the default when the index is out of range (a negative index is, as
\* usize, beyond every list).
GetOr(list, index, d) ==
  IF index >= 0 /\ index < Len(list) THEN list[index + 1] ELSE d

\* The tenths of a weight or price; their texts in this model are finite.
Tenths(x) == x.v

\* specs_map after the loop over spec_values: field i goes under key i of
\* the type, a later field of the same key replacing an earlier one, fields
\* beyond the keys dropped.
SpecsMap(keys, spec_values) ==
  LET n == IF Len(keys) < Len(spec_values) THEN Len(keys)
           ELSE Len(spec_values)
      last(k) == CHOOSE i \in 1..n :
                   keys[i] = k /\ \A j \in 1..n : keys[j] = k => j <= i
  IN [k \in {keys[i] : i \in 1..n} |->
        UnwrapOr(ParseF64(spec_values[last(k)]), Fin(0))]

\* The InventoryBatch that on_add_batch builds from its arguments and the
\* cache.
NewBatch(c, in) ==
  LET type_data == GetOr(c.types, in.type_idx, <<0, <<>>>>)
  IN [name |-> in.name,
      weight |-> Tenths(UnwrapOr(ParseF64(in.w_str), Fin(0))),
      price |-> Tenths(UnwrapOr(ParseF64(in.p_str), Fin(0))),
      grade_id |-> GetOr(c.grades, in.grade_idx, 0),
      stage_id |-> GetOr(c.stages, in.stage_idx, 0),
      type_id |-> type_data[1],
      specs |-> SpecsMap(type_data[2], in.spec_values)]

\* on_add_batch: the cache is locked for the whole closure.
on_add_batch(t, inputs) ==
  \E in \in inputs : Start(t, "add_batch_lock", in)

\* let cache = c.lock().unwrap(); ... let new_batch = InventoryBatch {..};
add_batch_lock(t) ==
  /\ ui[t].at = "add_batch_lock"
  /\ CacheLock(t)
  /\ ui' = [ui EXCEPT ![t] = [at |-> "add_batch_insert",
                              a |-> NewBatch(cache, ui[t].a)]]
  /\ UNCHANGED <<store, cache, ncalls, nfaults, closed>>

\* if let Ok(_) = db.insert_inventory_batch(&new_batch) {
add_batch_insert(t) ==
  /\ ui[t].at = "add_batch_insert"
  /\ insert_inventory_batch_lock(t, {ui[t].a})

add_batch_inserted(t) ==
  /\ ui[t].at = "add_batch_insert"
  /\ pc[t] = "insert_inventory_batch_ret"
  /\ Return(t)
  /\ Goto(t, IF ret[t].ok THEN "add_batch_aggregate" ELSE "add_batch_unlock")
  /\ UNCHANGED <<cache_lock, cache, ncalls, nfaults, closed>>

\* if let Ok((w, count)) = db.aggregate_stage_totals(new_batch.stage_id) {
add_batch_aggregate(t) ==
  /\ ui[t].at = "add_batch_aggregate"
  /\ aggregate_stage_totals_lock(t, {ui[t].a.stage_id})

add_batch_aggregated(t) ==
  /\ ui[t].at = "add_batch_aggregate"
  /\ pc[t] = "aggregate_stage_totals_ret"
  /\ Return(t)
  /\ Goto(t, "add_batch_unlock")
  /\ UNCHANGED <<cache_lock, cache, ncalls, nfaults, closed>>

\* The end of the closure: the cache guard is dropped.
add_batch_unlock(t) ==
  /\ ui[t].at = "add_batch_unlock"
  /\ CacheUnlock(t)
  /\ ui' = [ui EXCEPT ![t] = UiIdle]
  /\ UNCHANGED <<store, cache, ncalls, nfaults, closed>>

\* The window is closed while no callback runs: ui.run() returns, main
\* returns, and the program is started again on the data file it left.
main_exit(t) ==
  /\ t = MainThread
  /\ ~InMain
  /\ \A u \in Threads : ui[u].at = "idle"
  /\ closed' = [stages |-> stages, grades |-> grades,
                product_types |-> product_types,
                inventory_batches |-> inventory_batches]
  /\ ui' = [ui EXCEPT ![t].at = "main_open"]
  /\ cache' = EmptyCache
  /\ UNCHANGED <<store, cache_lock, ncalls, nfaults>>

\* ------------------------------------------------- failing statements

\* pc values at which a method is about to prepare or run a statement.
StmtPcs == {"seed_count_stages", "seed_insert_stage", "seed_count_grades",
            "seed_insert_grade", "insert_stage_exec", "get_all_stages_exec",
            "insert_grade_exec", "get_all_grades_exec",
            "insert_product_type_exec", "get_all_product_types_exec",
            "insert_inventory_batch_exec", "aggregate_stage_totals_exec"}

\* The pc at which the method of a statement returns.
RetPcOf(p) ==
  IF p \in SeedPcs THEN "seed_defaults_ret"
  ELSE IF p = "insert_stage_exec" THEN "insert_stage_ret"
  ELSE IF p = "get_all_stages_exec" THEN "get_all_stages_ret"
  ELSE IF p = "insert_grade_exec" THEN "insert_grade_ret"
  ELSE IF p = "get_all_grades_exec" THEN "get_all_grades_ret"
  ELSE IF p = "insert_product_type_exec" THEN "insert_product_type_ret"
  ELSE IF p = "get_all_product_types_exec" THEN "get_all_product_types_ret"
  ELSE IF p = "insert_inventory_batch_exec" THEN "insert_inventory_batch_ret"
  ELSE "aggregate_stage_totals_ret"

\* A plausible slip: the result of the statement unwrapped, so that its
\* failure panics in the middle of the method.
PropagateUnwrap(t) ==
  /\ pc' = [pc EXCEPT ![t] = "panicked"]
  /\ ret' = ret
  /\ UNCHANGED <<tables, lock>>

\* A plausible slip: the method run in a transaction that its failure rolls
\* back.
PropagateRollback(t) ==
  /\ ret' = [ret EXCEPT ![t] = Err(pc[t])]
  /\ pc' = [pc EXCEPT ![t] = RetPcOf(pc[t])]
  /\ stages' = entry[t].stages
  /\ grades' = entry[t].grades
  /\ product_types' = entry[t].product_types
  /\ inventory_batches' = entry[t].inventory_batches
  /\ lock' = lock

\* The `?` after a statement: its error becomes the result of the method,
\* which returns at once; what earlier statements wrote stays written.  The
\* error is kept as the position of the statement that failed.
Propagate(t) ==
  /\ ret' = [ret EXCEPT ![t] = Err(pc[t])]
  /\ pc' = [pc EXCEPT ![t] = RetPcOf(pc[t])]
  /\ UNCHANGED <<tables, lock>>

\* A statement fails for a reason outside the program (the disk is full,
\* the file is locked or damaged), within the model's budget of failures.
stmt_fails(t) ==
  /\ pc[t] \in StmtPcs
  /\ nfaults < MaxFaults
  /\ nfaults' = nfaults + 1
  /\ Propagate(t)
  /\ UNCHANGED <<ui, cache_lock, cache, ncalls, closed>>
  /\ UNCHANGED <<last_insert_rowid, arg, loc, entry, seeded, custom, declared>>

\* Database::open fails and .expect(..) ends the program.
main_open_fails(t) ==
  /\ t = MainThread
  /\ ui[t].at = "main_open"
  /\ nfaults < MaxFaults
  /\ nfaults' = nfaults + 1
  /\ Goto(t, "open_failed")
  /\ UNCHANGED <<store, cache_lock, cache, ncalls, closed>>

\* ------------------------------------- specifications of the program

\* What the user enters in one run: names, a type, the index of a type, and
\* batches whose texts are numbers, a negative number, NaN, an infinity and
\* no number, at indexes inside and outside the lists.
UiTypeInputs ==
  {[name |-> "Blue Dream", specs_str |-> <<"THC", "", "Terpenes">>]}
UiBatchInputs ==
  { [type_idx |-> 0, name |-> "Lot", w_str |-> "2.5", p_str |-> "10.0",
     grade_idx |-> 0, stage_idx |-> 0, spec_values |-> <<"12.5", "abc">>],
    [type_idx |-> 0, name |-> "Lot", w_str |-> "-2.5", p_str |-> "10.0",
     grade_idx |-> 0, stage_idx |-> 0, spec_values |-> <<"NaN">>],
    [type_idx |-> 3, name |-> "Lot", w_str |-> "abc", p_str |-> "",
     grade_idx |-> -1, stage_idx |-> 9, spec_values |-> <<"inf">>] }
UiInputs ==
  [stages |-> {"", "Z"}, grades |-> {"Z"}, types |-> UiTypeInputs,
   indexes |-> {0}, batches |-> UiBatchInputs]

\* What the user enters over several runs: a stage, a grade, a type and a
\* batch.
RunsInputs ==
  [stages |-> {"Z"}, grades |-> {"Z"}, types |-> UiTypeInputs,
   indexes |-> {0},
   batches |-> {[type_idx |-> 0, name |-> "Lot", w_str |-> "2.5",
                 p_str |-> "10.0", grade_idx |-> 0, stage_idx |-> 0,
                 spec_values |-> <<"12.5">>]}]

\* The program is started on a data file that does not exist yet.
InitProgram ==
  /\ stages = <<>>
  /\ grades = <<>>
  /\ product_types = <<>>
  /\ inventory_batches = <<>>
  /\ last_insert_rowid = 0
  /\ lock = NoThread
  /\ pc = [t \in Threads |-> "idle"]
  /\ arg = [t \in Threads |-> NoArg]
  /\ loc = [t \in Threads |-> 0]
  /\ ret = [t \in Threads |-> NoRet]
  /\ entry = [t \in Threads |-> NoEntry]
  /\ seeded = FALSE
  /\ custom = FALSE
  /\ declared = <<>>
  /\ ui = [t \in Threads |->
             IF t = MainThread THEN [at |-> "main_open", a |-> NoArg]
             ELSE UiIdle]
  /\ cache_lock = NoThread
  /\ cache = EmptyCache
  /\ ncalls = 0
  /\ nfaults = 0
  /\ closed = NewFile

\* The steps of thread t in one run of the program: main up to ui.run(),
\* then the callbacks, each thread in at most one at a time, with inputs
\* from U.
Step(t, U) ==
  \/ main_open(t)
  \/ main_seed_defaults(t)
  \/ seed_count_stages(t)
  \/ seed_insert_stage(t)
  \/ seed_count_grades(t)
  \/ seed_insert_grade(t)
  \/ main_seeded(t)
  \/ refresh_lists_lock(t)
  \/ refresh_get_all_stages(t)
  \/ get_all_stages_exec(t)
  \/ refresh_stages_got(t)
  \/ refresh_get_all_grades(t)
  \/ get_all_grades_exec(t)
  \/ refresh_grades_got(t)
  \/ refresh_get_all_product_types(t)
  \/ get_all_product_types_exec(t)
  \/ refresh_types_got(t)
  \/ refresh_lists_unlock(t)
  \/ on_add_new_stage(t, U.stages)
  \/ add_new_stage_insert(t)
  \/ insert_stage_exec(t)
  \/ insert_stage_rowid(t)
  \/ add_new_stage_inserted(t)
  \/ on_add_new_grade(t, U.grades)
  \/ add_new_grade_insert(t)
  \/ insert_grade_exec(t)
  \/ insert_grade_rowid(t)
  \/ add_new_grade_inserted(t)
  \/ on_add_new_type(t, U.types)
  \/ add_new_type_insert(t)
  \/ insert_product_type_exec(t)
  \/ insert_product_type_rowid(t)
  \/ add_new_type_inserted(t)
  \/ on_type_selected(t, U.indexes)
  \/ type_selected_lock(t)
  \/ type_selected_unlock(t)
  \/ on_add_batch(t, U.batches)
  \/ add_batch_lock(t)
  \/ add_batch_insert(t)
  \/ insert_inventory_batch_exec(t)
  \/ insert_inventory_batch_rowid(t)
  \/ add_batch_inserted(t)
  \/ add_batch_aggregate(t)
  \/ aggregate_stage_totals_exec(t)
  \/ add_batch_aggregated(t)
  \/ add_batch_unlock(t)

NextUi == \E t \in Threads : Step(t, UiInputs)

\* One run of the program.
SpecUi == InitProgram /\ [][NextUi]_vars

\* One run under a scheduler that lets every thread that can take a step
\* take one.
FairSpecUi == SpecUi /\ \A t \in Threads : WF_vars(Step(t, UiInputs))

\* Runs of the program one after the other on the same data file, with
\* statements and the opening of the file failing at any time.  The event
\* loop of ui.run() calls every callback on the thread of main.
NextRuns ==
  \E t \in {MainThread} :
    \/ Step(t, RunsInputs)
    \/ main_exit(t)
    \/ stmt_fails(t)
    \/ main_open_fails(t)

SpecRuns == InitProgram /\ [][NextRuns]_vars

\* ------------------------------------------------------------ claims

\* The baseline rows as a new store holds them.
BaselineStageRows ==
  <<[id |-> 1, name |-> "Unbucked"], [id |-> 2, name |-> "Bucked"],
    [id |-> 3, name |-> "Rolled"], [id |-> 4, name |-> "Processed"]>>

BaselineGradeRows ==
  <<[id |-> 1, name |-> "A"], [id |-> 2, name |-> "B"],
    [id |-> 3, name |-> "C"], [id |-> 4, name |-> "Trim"]>>

\* C1: seed_defaults is idempotent.  Once a seed_defaults call has returned
\* Ok, a seed_defaults call leaves stages and grades, at each of its steps
\* and at its return, exactly as it found them; and on a new store on which
\* nothing but seed_defaults has run, stages is Unbucked, Bucked, Rolled,
\* Processed and grades is A, B, C, Trim, each once.
C1_SeedIdempotent ==
  /\ (seeded /\ ~custom) =>
       (stages = BaselineStageRows /\ grades = BaselineGradeRows)
  /\ \A t \in Threads :
       (seeded /\ pc[t] \in SeedPcs) =>
         (stages = entry[t].stages /\ grades = entry[t].grades)

\* A second seed_defaults call is about to return on a store an earlier call
\* has seeded.
C1_Witness ==
  \E t \in Threads :
    /\ pc[t] = "seed_defaults_ret"
    /\ seeded /\ ~custom
    /\ entry[t].stages = BaselineStageRows
    /\ entry[t].grades = BaselineGradeRows

\* C2: seed_defaults decides per table.  At its return, stages is the four
\* baseline stages in the order Unbucked, Bucked, Rolled, Processed if stages
\* was empty at the call and is otherwise exactly what it was at the call;
\* grades is the four baseline grades in the order A, B, C, Trim if grades was
\* empty at the call and is otherwise exactly what it was, whatever the other
\* table held.
C2_SeedPerTable ==
  \A t \in Threads :
    pc[t] = "seed_defaults_ret" =>
      /\ stages = (IF entry[t].stages = <<>> THEN BaselineStageRows
                   ELSE entry[t].stages)
      /\ grades = (IF entry[t].grades = <<>> THEN BaselineGradeRows
                   ELSE entry[t].grades)

\* seed_defaults returns after insert_stage("Z") on a new store: no stage
\* added, all four grades added.
C2_Witness ==
  \E t \in Threads :
    /\ pc[t] = "seed_defaults_ret"
    /\ entry[t].stages = <<[id |-> 1, name |-> "Z"]>>
    /\ entry[t].grades = <<>>
    /\ stages = <<[id |-> 1, name |-> "Z"]>>
    /\ grades = BaselineGradeRows

NamesUnique(rows) ==
  \A i, j \in DOMAIN rows : rows[i].name = rows[j].name => i = j

\* C3: no two rows of stages, of grades or of product_types share a name;
\* insert_stage, insert_grade and insert_product_type called with a name the
\* table already holds return Ok and leave the table as it was: the same
\* rows, ids and stored key texts, whatever keys the call passed.
C3_DuplicateInsertNoOp ==
  /\ NamesUnique(stages) /\ NamesUnique(grades) /\ NamesUnique(product_types)
  /\ \A t \in Threads :
       /\ (pc[t] = "insert_stage_ret" /\ HasName(entry[t].stages, arg[t])) =>
            (ret[t].ok /\ stages = entry[t].stages)
       /\ (pc[t] = "insert_grade_ret" /\ HasName(entry[t].grades, arg[t])) =>
            (ret[t].ok /\ grades = entry[t].grades)
       /\ (pc[t] = "insert_product_type_ret"
             /\ HasName(entry[t].product_types, arg[t].name)) =>
            (ret[t].ok /\ product_types = entry[t].product_types)

\* insert_product_type returns for a name already stored with other keys
\* than the ones passed, on a store whose stage table already holds "Z".
C3_Witness ==
  \E t \in Threads :
    /\ pc[t] = "insert_product_type_ret"
    /\ \E i \in DOMAIN entry[t].product_types :
         /\ entry[t].product_types[i].name = arg[t].name
         /\ entry[t].product_types[i].specs_keys_json
              # <<LB>> \o ListElems(arg[t].keys) \o <<RB>>
    /\ HasName(stages, "Z")

\* Positions of the stored batches of a stage.
BatchesOf(stage_id) ==
  {i \in DOMAIN inventory_batches :
     inventory_batches[i].stage_id = stage_id}

RECURSIVE WeightByValue(_, _)
\* The weight of a stage, summed value by value: each weight in ws times the
\* number of the stage's batches that weigh it.
WeightByValue(ws, stage_id) ==
  IF ws = {} THEN 0
  ELSE LET w == CHOOSE x \in ws : TRUE
       IN w * Cardinality({i \in BatchesOf(stage_id) :
                             inventory_batches[i].weight = w})
          + WeightByValue(ws \ {w}, stage_id)

\* C4: aggregate_stage_totals(s) returns Ok of the pair (sum of weight over
\* exactly the stored batches whose stage_id is s, number of those batches);
\* for an s no stored batch uses it returns Ok((0.0, 0)).
C4_AggregateTotals ==
  \A t \in Threads :
    pc[t] = "aggregate_stage_totals_ret" =>
      /\ ret[t].ok
      /\ ret[t].val = <<WeightByValue(Weights, arg[t]),
                        Cardinality(BatchesOf(arg[t]))>>
      /\ (BatchesOf(arg[t]) = {} => ret[t].val = <<0, 0>>)

\* Batches of 10.0, 2.5 and 0.0 at stage 5 aggregate to (12.5, 3).
C4_Witness ==
  \E t \in Threads :
    /\ pc[t] = "aggregate_stage_totals_ret"
    /\ arg[t] = 5
    /\ Len(inventory_batches) = 3
    /\ \A i \in 1..3 : inventory_batches[i].stage_id = 5
    /\ {inventory_batches[i].weight : i \in 1..3} = {100, 25, 0}
    /\ ret[t] = Ok(<<125, 3>>)

\* C5: at most one caller is inside a method of the store at any time, and a
\* caller inside a method holds the mutex from its first statement to its
\* return, so no statement of another method runs in between: the tables and
\* the connection's last rowid it sees on a read are those it found.
C5_MutualExclusion ==
  /\ \A t \in Threads : (pc[t] # "idle") <=> (lock = t)
  /\ \A t1, t2 \in Threads :
       (pc[t1] # "idle" /\ pc[t2] # "idle") => t1 = t2
  /\ \A t \in Threads :
       pc[t] \in {"get_all_stages_ret", "get_all_grades_ret",
                  "get_all_product_types_ret", "aggregate_stage_totals_ret"}
         => tables = <<entry[t].stages, entry[t].grades,
                       entry[t].product_types, entry[t].inventory_batches>>

\* A caller is in the middle of the grade loop of seed_defaults, holding the
\* mutex, on a store other calls have already written to.
C5_Witness ==
  \E t \in Threads :
    /\ pc[t] = "seed_insert_grade" /\ loc[t] = 3
    /\ lock = t
    /\ HasName(stages, "Z")
    /\ product_types # <<>>
    /\ inventory_batches # <<>>

\* C6: with any number of callers running seed_defaults on a store opened
\* empty, every seed_defaults call returns Ok, and as long as seed_defaults is
\* the only writer of the two tables, at each return stages holds the four
\* baseline stages once each and grades the four baseline grades once each.
C6_SeedOnceConcurrent ==
  \A t \in Threads :
    pc[t] = "seed_defaults_ret" =>
      /\ ret[t] = Ok(Unit)
      /\ ~custom => (stages = BaselineStageRows /\ grades = BaselineGradeRows)

\* Two callers have run seed_defaults on the store opened empty: one has
\* returned Ok, the other is returning Ok, and the last insert on the
\* connection is still the fourth grade of the one seeding.
C6_Witness ==
  \E t \in Threads :
    /\ pc[t] = "seed_defaults_ret" /\ ret[t] = Ok(Unit)
    /\ seeded /\ ~custom
    /\ Len(stages) = 4 /\ Len(grades) = 4
    /\ last_insert_rowid = 4

\* The (id, name) pairs of a table in the order its rows were created.
InCreationOrder(rows) ==
  [i \in DOMAIN rows |-> <<rows[i].id, rows[i].name>>]

IdsAscending(list) ==
  \A i, j \in DOMAIN list : i < j => list[i][1] < list[j][1]

\* C7: get_all_stages and get_all_grades return Ok of every row of their
\* table, in ascending id order, which is the order in which the rows were
\* created, however the names compare.
C7_ListInIdOrder ==
  \A t \in Threads :
    /\ pc[t] = "get_all_stages_ret" =>
         /\ ret[t].ok
         /\ ret[t].val = InCreationOrder(stages)
         /\ IdsAscending(ret[t].val)
    /\ pc[t] = "get_all_grades_ret" =>
         /\ ret[t].ok
         /\ ret[t].val = InCreationOrder(grades)
         /\ IdsAscending(ret[t].val)

\* get_all_stages lists "Z" before "A" after they were inserted in that order.
C7_Witness ==
  \E t \in Threads :
    /\ pc[t] = "get_all_stages_ret"
    /\ \E i, j \in DOMAIN ret[t].val :
         i < j /\ ret[t].val[i][2] = "Z" /\ ret[t].val[j][2] = "A"

IdsIncreasing(rows) ==
  \A i, j \in DOMAIN rows : i < j => rows[i].id < rows[j].id

IdsDense(rows) ==
  \A i \in DOMAIN rows : rows[i].id = i

\* C8: in stages, grades, product_types and inventory_batches every row has
\* an id greater than the id of every row created before it in the same
\* table, so no id is used twice; an ignored duplicate-name insert leaves
\* every row and id as it was and uses up no id: on a store opened empty the
\* ids of each table are 1, 2, 3, ... without a gap.
C8_IdsIncreasing ==
  /\ IdsIncreasing(stages) /\ IdsIncreasing(grades)
  /\ IdsIncreasing(product_types) /\ IdsIncreasing(inventory_batches)
  /\ IdsDense(stages) /\ IdsDense(grades)
  /\ IdsDense(product_types) /\ IdsDense(inventory_batches)
  /\ \A t \in Threads :
       /\ (pc[t] = "insert_stage_ret" /\ HasName(entry[t].stages, arg[t])) =>
            stages = entry[t].stages
       /\ (pc[t] = "insert_grade_ret" /\ HasName(entry[t].grades, arg[t])) =>
            grades = entry[t].grades
       /\ (pc[t] = "insert_product_type_ret"
             /\ HasName(entry[t].product_types, arg[t].name)) =>
            product_types = entry[t].product_types

\* A stage is created after the baseline and an ignored duplicate insert,
\* and every table holds more than one row.
C8_Witness ==
  \E t \in Threads :
    /\ pc[t] = "insert_stage_ret"
    /\ entry[t].stages = BaselineStageRows
    /\ stages = Append(BaselineStageRows, [id |-> 5, name |-> "Z"])
    /\ Len(inventory_batches) > 1
    /\ Len(grades) > 1
    /\ product_types # <<>>

\* C9: get_all_product_types returns Ok with, for every name that an
\* insert_product_type call created, a row of that name whose key sequence is
\* the one that call passed: the same elements in the same order.
C9_KeysRoundTrip ==
  \A t \in Threads :
    pc[t] = "get_all_product_types_ret" =>
      /\ ret[t].ok
      /\ \A d \in DOMAIN declared :
           \E i \in DOMAIN ret[t].val :
             /\ ret[t].val[i][2] = declared[d].name
             /\ ret[t].val[i][3] = declared[d].keys

\* The listing returns after two product types were created, one with a
\* repeated key and one with no key.
C9_Witness ==
  \E t \in Threads :
    /\ pc[t] = "get_all_product_types_ret"
    /\ \E d \in DOMAIN declared : declared[d].keys = <<"THC", "THC">>
    /\ \E d \in DOMAIN declared : declared[d].keys = <<>>
    /\ \E i \in DOMAIN ret[t].val : ret[t].val[i][3] = <<"THC", "THC">>

\* The key lists whose texts the stores of this model can hold.
KnownKeyLists == KeyLists \cup {<<"CBD", "THC">>}

\* The key sequence a stored text stands for: none for a corrupt text.
KeysOfText(text) ==
  IF text \in CorruptTexts THEN <<>>
  ELSE CHOOSE k \in KnownKeyLists : <<LB>> \o ListElems(k) \o <<RB>> = text

\* C10: get_all_product_types returns Ok even when product_types holds a row
\* whose stored key text is no list of strings; it returns one entry per row,
\* that row with an empty key sequence and every other row with its id, its
\* name and the key sequence its text stands for.
C10_LenientRead ==
  \A t \in Threads :
    pc[t] = "get_all_product_types_ret" =>
      /\ ret[t].ok
      /\ Len(ret[t].val) = Len(product_types)
      /\ \A i \in DOMAIN product_types :
           \E j \in DOMAIN ret[t].val :
             ret[t].val[j] = <<product_types[i].id, product_types[i].name,
                               KeysOfText(product_types[i].specs_keys_json)>>

\* The listing returns on a table with a corrupt row between two good ones.
C10_Witness ==
  \E t \in Threads :
    /\ pc[t] = "get_all_product_types_ret"
    /\ Len(product_types) = 3
    /\ product_types[2].specs_keys_json \in CorruptTexts
    /\ ret[t].ok
    /\ ret[t].val[1][3] = <<"CBD", "THC">>
    /\ ret[t].val[2][3] = <<>>
    /\ ret[t].val[3][3] = <<"THC", "Terpenes">>

\* The entries of a listing, as a set.
Entries(list) == {list[i] : i \in DOMAIN list}

Ids(rows) == {rows[i].id : i \in DOMAIN rows}

\* C15: insert_stage, insert_grade and insert_product_type called with a name
\* the table does not hold yet return Ok of the id of the row they created:
\* an id no earlier row has, and the id next to which the listing of the
\* table (get_all_stages, get_all_grades, get_all_product_types) shows the
\* name, whatever other callers do before, between and after.
C15_InsertReturnsNewId ==
  \A t \in Threads :
    /\ (pc[t] = "insert_stage_ret" /\ ~HasName(entry[t].stages, arg[t])) =>
         /\ ret[t].ok
         /\ ret[t].val \notin Ids(entry[t].stages)
         /\ <<ret[t].val, arg[t]>> \in Entries(SelectIdName(stages))
    /\ (pc[t] = "insert_grade_ret" /\ ~HasName(entry[t].grades, arg[t])) =>
         /\ ret[t].ok
         /\ ret[t].val \notin Ids(entry[t].grades)
         /\ <<ret[t].val, arg[t]>> \in Entries(SelectIdName(grades))
    /\ (pc[t] = "insert_product_type_ret"
          /\ ~HasName(entry[t].product_types, arg[t].name)) =>
         /\ ret[t].ok
         /\ ret[t].val \notin Ids(entry[t].product_types)
         /\ <<ret[t].val, arg[t].name, arg[t].keys>>
              \in Entries(SelectProductTypes(product_types).val)

\* insert_stage("Z") returns 5 on a seeded store whose connection has since
\* inserted batches, the last of them under id 2.
C15_Witness ==
  \E t \in Threads :
    /\ pc[t] = "insert_stage_ret" /\ arg[t] = "Z"
    /\ entry[t].stages = BaselineStageRows
    /\ Len(inventory_batches) = 2
    /\ ret[t] = Ok(5)

\* The tables a caller found when it took the mutex.
EntryTables(t) ==
  <<entry[t].stages, entry[t].grades, entry[t].product_types,
    entry[t].inventory_batches>>

\* What aggregate_stage_totals(stage_id) returns on the given batch rows.
Totals(rows, stage_id) == SelectStageTotals(rows, stage_id).val

\* C18: a successful insert_inventory_batch with stage id s adds exactly one
\* row to inventory_batches and keeps every earlier row; the totals of s grow
\* by exactly (weight of the batch, 1), the totals of every other stage id
\* stay as they were, and stages, grades and product_types are untouched.
\* get_all_stages, get_all_grades, get_all_product_types and
\* aggregate_stage_totals change no table.
C18_BatchInsertFrame ==
  \A t \in Threads :
    /\ (pc[t] = "insert_inventory_batch_ret" /\ ret[t].ok) =>
         LET before == entry[t].inventory_batches
         IN /\ Len(inventory_batches) = Len(before) + 1
            /\ SubSeq(inventory_batches, 1, Len(before)) = before
            /\ \A s \in AggStageIds \cup {arg[t].stage_id} :
                 /\ Totals(inventory_batches, s)[1] = Totals(before, s)[1]
                      + (IF s = arg[t].stage_id THEN arg[t].weight ELSE 0)
                 /\ Totals(inventory_batches, s)[2] = Totals(before, s)[2]
                      + (IF s = arg[t].stage_id THEN 1 ELSE 0)
            /\ stages = entry[t].stages
            /\ grades = entry[t].grades
            /\ product_types = entry[t].product_types
    /\ pc[t] \in {"get_all_stages_exec", "get_all_stages_ret",
                  "get_all_grades_exec", "get_all_grades_ret",
                  "get_all_product_types_exec", "get_all_product_types_ret",
                  "aggregate_stage_totals_exec", "aggregate_stage_totals_ret"}
         => tables = EntryTables(t)

\* A batch of stage 5 has been added to a batch of stage 1 and one of stage
\* 5, on a store that holds stages, grades and a product type.
C18_Witness ==
  \E t \in Threads :
    /\ pc[t] = "insert_inventory_batch_ret" /\ ret[t].ok
    /\ arg[t].stage_id = 5
    /\ Totals(entry[t].inventory_batches, 1) = <<25, 1>>
    /\ Totals(entry[t].inventory_batches, 5) = <<25, 1>>
    /\ Totals(inventory_batches, 5) = <<50, 2>>
    /\ stages # <<>> /\ grades # <<>> /\ product_types # <<>>

\* The four tables as the last exit of the program left them.
ClosedTables ==
  <<closed.stages, closed.grades, closed.product_types,
    closed.inventory_batches>>

\* C12: opening the store on a data file an earlier run has populated
\* succeeds unless the opening itself fails for an outside reason, and
\* leaves every row of stages, grades, product_types and inventory_batches as
\* the earlier run left it; the seed_defaults call that main makes after the
\* reopen writes nothing to a classification table that is non-empty, and
\* nothing to the other two tables.
C12_ReopenKeepsRows ==
  /\ ui[MainThread].at = "open_failed" => nfaults > 0
  /\ (ui[MainThread].at = "main_seed" /\ pc[MainThread] = "idle") =>
       tables = ClosedTables
  /\ (ui[MainThread].at = "main_seed" /\ pc[MainThread] \in SeedPcs) =>
       /\ closed.stages # <<>> => stages = closed.stages
       /\ closed.grades # <<>> => grades = closed.grades
       /\ product_types = closed.product_types
       /\ inventory_batches = closed.inventory_batches

\* main's seed_defaults returns Ok after a reopen of a data file that holds
\* rows in all four tables, a stage beyond the baseline among them.
C12_Witness ==
  /\ ui[MainThread].at = "main_seed"
  /\ pc[MainThread] = "seed_defaults_ret" /\ ret[MainThread].ok
  /\ HasName(closed.stages, "Z") /\ closed.grades # <<>>
  /\ closed.product_types # <<>> /\ closed.inventory_batches # <<>>
  /\ tables = ClosedTables

\* Every position inside a method of the store.
MethodPcs ==
  StmtPcs \cup RetPcs
  \cup {"insert_stage_rowid", "insert_grade_rowid",
        "insert_product_type_rowid", "insert_inventory_batch_rowid"}

\* C13: every method of the store ends by returning Ok or Err.  A failing
\* statement makes its method return Err: it ends no thread in the middle of
\* a method and does not end the program, and the mutex is held only by a
\* caller that is still inside a method, so it is free for the next caller
\* once that caller has returned.  The program ends abnormally only when
\* Database::open fails at startup, before any method runs.
C13_FailureReturnsErr ==
  /\ \A t \in Threads :
       /\ pc[t] \in MethodPcs \cup {"idle"}
       /\ pc[t] \in RetPcs => (ret[t].ok \/ ret[t].val # NoRet.val)
       /\ (pc[t] \in RetPcs /\ ~ret[t].ok /\ ret[t].val \in StmtPcs) =>
            (lock = t /\ RetPcOf(ret[t].val) = pc[t])
  /\ lock # NoThread => pc[lock] # "idle"
  /\ ui[MainThread].at = "open_failed" => \A t \in Threads : pc[t] = "idle"

\* A statement of seed_defaults has failed in the middle of the stage loop,
\* the method has returned, and a later insert_stage has taken the mutex and
\* is returning Ok.
C13_Witness ==
  \E t \in Threads :
    /\ nfaults = 1
    /\ pc[t] = "insert_stage_ret" /\ ret[t].ok
    /\ Len(entry[t].stages) = 2 /\ grades = <<>>
    /\ lock = t

\* The number of baseline stage names among the rows.
BaselineCount(rows) ==
  Cardinality({i \in DOMAIN StageDefaults : HasName(rows, StageDefaults[i])})

\* A seed_defaults call stands in its stage loop.
SeedingStages == \E t \in Threads : pc[t] = "seed_insert_stage"

\* C19: a failed seed is neither rolled back nor repaired.  When a statement
\* of the stage loop of seed_defaults fails at its turn i, the call returns
\* Err with the i - 1 stages it has inserted still in the table and with
\* grades as it found them: no grade is seeded by that call.  Every
\* seed_defaults call that finds stages non-empty writes no stage.  So once
\* some but not all baseline stages are in the table and no call stands in
\* the stage loop, no step of any call adds a baseline stage: seeding never
\* completes the baseline.
C19_FailedSeedStays ==
  /\ [](\A t \in Threads :
         /\ (pc[t] = "seed_defaults_ret" /\ ~ret[t].ok
               /\ ret[t].val = "seed_insert_stage") =>
              /\ entry[t].stages = <<>>
              /\ stages = SubSeq(BaselineStageRows, 1, loc[t] - 1)
              /\ grades = entry[t].grades
         /\ (pc[t] \in SeedPcs /\ entry[t].stages # <<>>) =>
              stages = entry[t].stages)
  /\ [][(BaselineCount(stages) \in 1..3 /\ ~SeedingStages) =>
         (BaselineCount(stages') = BaselineCount(stages) /\ ~SeedingStages')]_vars

\* The seed of an earlier run failed at the third stage; main's seed of a
\* later run found the two stages, wrote none, seeded the grades and is
\* returning Ok.
C19_Witness ==
  /\ pc[MainThread] = "seed_defaults_ret" /\ ret[MainThread].ok
  /\ nfaults = 1
  /\ closed.stages = SubSeq(BaselineStageRows, 1, 2)
  /\ closed.grades = <<>>
  /\ stages = closed.stages
  /\ grades = BaselineGradeRows

\* Caller t is returning Ok from an insert of a name its table already held.
DuplicateInsert(t) ==
  /\ ret[t].ok
  /\ \/ pc[t] = "insert_stage_ret" /\ HasName(entry[t].stages, arg[t])
     \/ pc[t] = "insert_grade_ret" /\ HasName(entry[t].grades, arg[t])
     \/ pc[t] = "insert_product_type_ret"
          /\ HasName(entry[t].product_types, arg[t].name)

\* The id of the newest row of a table that has grown since the data file
\* was opened.
NewestIds ==
  {rows[1][Len(rows[1])].id :
     rows \in {r \in {<<stages, closed.stages>>, <<grades, closed.grades>>,
                       <<product_types, closed.product_types>>,
                       <<inventory_batches, closed.inventory_batches>>} :
                Len(r[1]) > Len(r[2])}}

\* C17: insert_stage, insert_grade and insert_product_type called with a name
\* the table already holds return Ok of the connection's last rowid: the id
\* of the row the most recent successful insert on this connection created,
\* in whichever table, and 0 exactly when no row has been inserted since the
\* data file was opened.
C17_DuplicateReturnsLastRowid ==
  \A t \in Threads :
    DuplicateInsert(t) =>
      /\ ret[t].val = last_insert_rowid
      /\ (ret[t].val = 0) <=> (tables = ClosedTables)
      /\ ret[t].val # 0 => ret[t].val \in NewestIds

\* insert_stage("Z") finds "Z" stored under id 5 and returns 1, the id of
\* the row inserted last on the connection, in another table.
C17_Witness ==
  \E t \in Threads :
    /\ pc[t] = "insert_stage_ret" /\ arg[t] = "Z"
    /\ \E i \in DOMAIN entry[t].stages :
         entry[t].stages[i] = [id |-> 5, name |-> "Z"]
    /\ ret[t] = Ok(1)

\* A specs map with a value that is NaN or an infinity.
HasNonFinite(specs) == \E k \in DOMAIN specs : ~specs[k].fin

\* C11: every row of inventory_batches has a specs text that deserializes to
\* a map from strings to reals; and insert_inventory_batch called with a
\* specs map that holds a non-finite value (NaN, an infinity) returns Err and
\* writes no row.
C11_SpecsTextValid ==
  /\ \A i \in DOMAIN inventory_batches :
       SpecsFromJson(inventory_batches[i].specs_json).ok
  /\ \A t \in Threads :
       (pc[t] = "insert_inventory_batch_ret" /\ HasNonFinite(arg[t].specs)) =>
         (~ret[t].ok /\ inventory_batches = entry[t].inventory_batches)

\* C16: every row of inventory_batches has a weight that is not negative; so
\* the total weight aggregate_stage_totals returns is never negative, and a
\* batch insert lowers the total weight of no stage.
C16_WeightsNonNegative ==
  /\ \A i \in DOMAIN inventory_batches : inventory_batches[i].weight >= 0
  /\ \A t \in Threads :
       /\ (pc[t] = "aggregate_stage_totals_ret" /\ ret[t].ok) =>
            ret[t].val[1] >= 0
       /\ (pc[t] = "insert_inventory_batch_ret" /\ ret[t].ok) =>
            Totals(inventory_batches, arg[t].stage_id)[1]
              >= Totals(entry[t].inventory_batches, arg[t].stage_id)[1]

\* A thread inside main or a callback that is neither finished nor able to
\* take a step: it waits for a lock.
Blocked(t) == ui[t].at # "idle" /\ ~ENABLED Step(t, UiInputs)

\* C14: no interleaving reaches a deadlock between the cache lock and the
\* connection lock (whenever some call is under way, one of the calls under
\* way can take a step), and under fair scheduling every started call
\* eventually completes, holding neither lock afterwards.
C14_EveryCallCompletes ==
  /\ []((\E t \in Threads : ui[t].at # "idle") =>
          (\E t \in Threads : ui[t].at # "idle" /\ ~Blocked(t)))
  /\ \A t \in Threads :
       (ui[t].at # "idle") ~>
         (ui[t].at = "idle" /\ cache_lock # t /\ lock # t)

\* on_add_batch holds the cache lock and waits for the connection lock, which
\* a call of another thread holds.
C14_Witness ==
  \E t \in Threads :
    /\ ui[t].at = "add_batch_insert"
    /\ pc[t] = "idle"
    /\ cache_lock = t
    /\ lock \in Threads \ {t}
    /\ Blocked(t)

====
